---- MODULE Spec2Model ----
(***************************************************************************)
(* DaanaRx backend: the drug service (searchDrugs, searchDrugByNDC,        *)
(* getOrCreateDrug, searchMedicationsByName) over the `drugs` catalog and  *)
(* the `units` inventory, and the QR code generator.                       *)
(*                                                                         *)
(* Strings are sequences of one-character strings, so that trimming,       *)
(* case folding, digit stripping, substring search, padding and            *)
(* truncation are computed as the code computes them.  Null is the         *)
(* JavaScript null/undefined of a string-valued field; identifiers are     *)
(* positive integers and 0 stands for "no identifier".                     *)
(***************************************************************************)
EXTENDS Integers, Sequences, FiniteSets, TLC

VARIABLES
    catalog,    \* the drugs table: a sequence of rows in insertion order
    units,      \* the units table: a sequence of rows
    pc,         \* pc[p]: where call p of getOrCreateDrug stands
    drugData,   \* drugData[p]: the argument of call p
    ret,        \* ret[p]: the identifier call p returned (0: none)
    err,        \* err[p]: the message of the Error call p threw (Null: none)
    storeErr,   \* storeErr[p]: the error.message the store gave call p's insert
    hist,       \* hist[p]: p's previous returned call, and whether it stayed alone
    quiet,      \* quiet[p]: no other caller inserted since p's current call began
    ncalls,     \* getOrCreateDrug calls made so far
    call,       \* the last search call: its inputs, what it asked the store, its outcome
    qr          \* the last generateQRCode call: its inputs and its output

vars == <<catalog, units, pc, drugData, ret, err, storeErr, hist, quiet, ncalls,
         call, qr>>

upsertVars == <<pc, drugData, ret, err, storeErr, hist, quiet, ncalls>>

----------------------------------------------------------------------------
(* Bounds of the model *)

\* concurrent callers of getOrCreateDrug
NProc == 2

\* getOrCreateDrug calls in one behaviour
MaxCalls == 4

Procs == 1..NProc

----------------------------------------------------------------------------
(* Strings *)

Null == <<"NULL">>

LowerLetters == <<"a","b","c","d","e","f","g","h","i","j","k","l","m",
                  "n","o","p","q","r","s","t","u","v","w","x","y","z">>

UpperLetters == <<"A","B","C","D","E","F","G","H","I","J","K","L","M",
                  "N","O","P","Q","R","S","T","U","V","W","X","Y","Z">>

DigitChars == <<"0","1","2","3","4","5","6","7","8","9">>

Range(s) == {s[i] : i \in DOMAIN s}

IndexIn(s, c) == IF \E i \in DOMAIN s : s[i] = c
                 THEN CHOOSE i \in DOMAIN s : s[i] = c
                 ELSE 0

DigitSet == Range(DigitChars)

LowerSet == Range(LowerLetters)

UpperSet == Range(UpperLetters)

LowerOf == [c \in UpperSet |-> LowerLetters[IndexIn(UpperLetters, c)]]

UpperOf == [c \in LowerSet |-> UpperLetters[IndexIn(LowerLetters, c)]]

IsDigit(c) == c \in DigitSet

IsLetter(c) == c \in LowerSet \/ c \in UpperSet

IsSpace(c) == c \in {" ", "\t", "\n"}

ToLowerChar(c) == IF c \in UpperSet THEN LowerOf[c] ELSE c

ToUpperChar(c) == IF c \in LowerSet THEN UpperOf[c] ELSE c

toLowerCase(s) == [i \in 1..Len(s) |-> ToLowerChar(s[i])]

toUpperCase(s) == [i \in 1..Len(s) |-> ToUpperChar(s[i])]

\* String.prototype.includes
includes(s, sub) ==
    \E i \in 0..(Len(s) - Len(sub)) : SubSeq(s, i + 1, i + Len(sub)) = sub

RECURSIVE TrimStart(_)
TrimStart(s) == IF s # <<>> /\ IsSpace(Head(s)) THEN TrimStart(Tail(s)) ELSE s

RECURSIVE TrimEnd(_)
TrimEnd(s) == IF s # <<>> /\ IsSpace(s[Len(s)])
              THEN TrimEnd(SubSeq(s, 1, Len(s) - 1))
              ELSE s

\* String.prototype.trim
trim(s) == TrimEnd(TrimStart(s))

\* JavaScript truthiness of a string or null
Truthy(s) == s # Null /\ s # <<>>

\* normalizeNDC: ndc.replace(/[^0-9]/g, ''); defined on strings only
normalizeNDC(ndc) == SelectSeq(ndc, IsDigit)

\* SQL LIKE on case-folded operands: % (PostgREST also reads * as %) is any
\* run of characters, _ is any one character
RECURSIVE Like(_, _)
Like(p, s) ==
    IF p = <<>> THEN s = <<>>
    ELSE IF Head(p) \in {"%", "*"}
         THEN Like(Tail(p), s) \/ (s # <<>> /\ Like(p, Tail(s)))
         ELSE /\ s # <<>>
              /\ (Head(p) = "_" \/ Head(p) = Head(s))
              /\ Like(Tail(p), Tail(s))

\* column ILIKE pattern; a NULL column matches nothing
ILike(pattern, col) == col # Null /\ Like(toLowerCase(pattern), toLowerCase(col))

----------------------------------------------------------------------------
(* The drugs table *)

\* .single(): the row when the query yields exactly one, otherwise data = null
NoRow == [drug_id |-> 0]

single(rows) == IF Len(rows) = 1 THEN rows[1] ELSE NoRow

\* from('drugs').select('drug_id').eq('ndc_id', ndc)
SelectByNDC(cat, ndc) ==
    SelectSeq(cat, LAMBDA r : r.ndc_id # Null /\ r.ndc_id = ndc)

\* from('drugs').ilike('medication_name', ..).eq('strength', ..)
\*   .eq('strength_unit', ..).eq('form', ..)
SelectSimilar(cat, d) ==
    SelectSeq(cat, LAMBDA r : /\ ILike(d.medicationName, r.medication_name)
                              /\ r.strength = d.strength
                              /\ r.strength_unit = d.strengthUnit
                              /\ r.form = d.form)

\* the row insert() writes; the store assigns drug_id
NewDrugRow(d, id) ==
    [drug_id         |-> id,
     medication_name |-> d.medicationName,
     generic_name    |-> IF Truthy(d.genericName) THEN d.genericName
                                                  ELSE d.medicationName,
     strength        |-> d.strength,
     strength_unit   |-> d.strengthUnit,
     ndc_id          |-> IF Truthy(d.ndcId) THEN d.ndcId ELSE Null,
     form            |-> d.form]

\* the identifier the store gives the next inserted row
FreshId(cat) == Len(cat) + 1

----------------------------------------------------------------------------
(* Inputs of getOrCreateDrug *)

S_mg == <<"m","g">>

DrugInput(name, generic, strength, ndc, form) ==
    [medicationName |-> name, genericName |-> generic, strength |-> strength,
     strengthUnit |-> S_mg, ndcId |-> ndc, form |-> form]

\* no NDC; the same drug with an NDC and another letter case; another drug
\* scanned under the same NDC
DrugInputs ==
    { DrugInput(<<"a","b">>, Null, 5, Null, "tablet"),
      DrugInput(<<"A","B">>, <<"A","B">>, 5, <<"1","-","2">>, "tablet"),
      DrugInput(<<"c","d">>, <<"c">>, 10, <<"1","-","2">>, "capsule") }

NoData == [medicationName |-> Null]

\* error.message values of the store
StoreMessages == { <<"d","u","p">>, <<"d","o","w","n">> }

ErrorPrefix == <<"Failed to create drug: ">>

NoHist == [data |-> NoData, id |-> 0, alone |-> FALSE]

----------------------------------------------------------------------------
(* getOrCreateDrug, one action per await *)

\* entry: the NDC lookup is made only for a truthy ndcId
Call(p, d) ==
    /\ pc[p] \in {"idle", "returned", "threw"}
    /\ ncalls < MaxCalls
    /\ ncalls' = ncalls + 1
    /\ drugData' = [drugData EXCEPT ![p] = d]
    /\ pc' = [pc EXCEPT ![p] = IF Truthy(d.ndcId) THEN "ndc" ELSE "similar"]
    /\ ret' = [ret EXCEPT ![p] = 0]
    /\ err' = [err EXCEPT ![p] = Null]
    /\ storeErr' = [storeErr EXCEPT ![p] = Null]
    /\ quiet' = [quiet EXCEPT ![p] = TRUE]
    /\ UNCHANGED <<catalog, units, hist, call, qr>>

\* what a call that returns id leaves behind for the next one
Returned(p, id) ==
    /\ ret' = [ret EXCEPT ![p] = id]
    /\ pc' = [pc EXCEPT ![p] = "returned"]

\* the previous-call record of every caller after p inserted: p's own is
\* replaced, the others' are no longer alone
HistAfter(p, id, inserted) ==
    [q \in Procs |->
        IF q = p THEN [data |-> drugData[p], id |-> id, alone |-> quiet[p]]
        ELSE IF inserted THEN [hist[q] EXCEPT !.alone = FALSE]
        ELSE hist[q]]

\* existingDrug: .eq('ndc_id', drugData.ndcId).single()
LookupNDC(p) ==
    /\ pc[p] = "ndc"
    /\ LET existingDrug == single(SelectByNDC(catalog, drugData[p].ndcId))
       IN IF existingDrug # NoRow
          THEN /\ Returned(p, existingDrug.drug_id)
               /\ hist' = HistAfter(p, existingDrug.drug_id, FALSE)
          ELSE /\ pc' = [pc EXCEPT ![p] = "similar"]
               /\ UNCHANGED <<ret, hist>>
    /\ UNCHANGED <<catalog, units, drugData, err, storeErr, quiet, ncalls, call, qr>>

\* similarDrug: name ilike, strength, unit and form equal, .single()
LookupSimilar(p) ==
    /\ pc[p] = "similar"
    /\ LET similarDrug == single(SelectSimilar(catalog, drugData[p]))
       IN IF similarDrug # NoRow
          THEN /\ Returned(p, similarDrug.drug_id)
               /\ hist' = HistAfter(p, similarDrug.drug_id, FALSE)
          ELSE /\ pc' = [pc EXCEPT ![p] = "insert"]
               /\ UNCHANGED <<ret, hist>>
    /\ UNCHANGED <<catalog, units, drugData, err, storeErr, quiet, ncalls, call, qr>>

\* a check-and-insert in one store step: the insert is skipped for a row that
\* has appeared since the existence checks
InsertOkAtomic(p) ==
    /\ pc[p] = "insert"
    /\ LET now == SelectSimilar(catalog, drugData[p])
       IN IF now # <<>>
          THEN /\ Returned(p, now[1].drug_id)
               /\ hist' = HistAfter(p, now[1].drug_id, FALSE)
               /\ UNCHANGED <<catalog, quiet>>
          ELSE /\ catalog' = Append(catalog, NewDrugRow(drugData[p], FreshId(catalog)))
               /\ Returned(p, FreshId(catalog))
               /\ hist' = HistAfter(p, FreshId(catalog), TRUE)
               /\ quiet' = [q \in Procs |-> IF q = p THEN quiet[q] ELSE FALSE]
    /\ UNCHANGED <<units, drugData, err, storeErr, ncalls, call, qr>>

\* the insert succeeds: the row is appended and its drug_id returned
InsertOk(p) ==
    /\ pc[p] = "insert"
    /\ catalog' = Append(catalog, NewDrugRow(drugData[p], FreshId(catalog)))
    /\ Returned(p, FreshId(catalog))
    /\ hist' = HistAfter(p, FreshId(catalog), TRUE)
    /\ quiet' = [q \in Procs |-> IF q = p THEN quiet[q] ELSE FALSE]
    /\ UNCHANGED <<units, drugData, err, storeErr, ncalls, call, qr>>

\* the store's error ignored: the call returns the identifier it expected
InsertFailSwallowed(p, msg) ==
    /\ pc[p] = "insert"
    /\ storeErr' = [storeErr EXCEPT ![p] = msg]
    /\ Returned(p, FreshId(catalog))
    /\ hist' = HistAfter(p, FreshId(catalog), FALSE)
    /\ UNCHANGED <<catalog, units, drugData, err, quiet, ncalls, call, qr>>

\* the insert fails: error is set, no row is written, the call throws
InsertFail(p, msg) ==
    /\ pc[p] = "insert"
    /\ storeErr' = [storeErr EXCEPT ![p] = msg]
    /\ err' = [err EXCEPT ![p] = ErrorPrefix \o msg]
    /\ pc' = [pc EXCEPT ![p] = "threw"]
    /\ hist' = [hist EXCEPT ![p] = NoHist]
    /\ UNCHANGED <<catalog, units, drugData, ret, quiet, ncalls, call, qr>>

InitUpsert ==
    /\ catalog = <<>>
    /\ units = <<>>
    /\ pc = [p \in Procs |-> "idle"]
    /\ drugData = [p \in Procs |-> NoData]
    /\ ret = [p \in Procs |-> 0]
    /\ err = [p \in Procs |-> Null]
    /\ storeErr = [p \in Procs |-> Null]
    /\ hist = [p \in Procs |-> NoHist]
    /\ quiet = [p \in Procs |-> TRUE]
    /\ ncalls = 0
    /\ call = [op |-> "none"]
    /\ qr = [out |-> Null]

Init == InitUpsert

Next ==
    \E p \in Procs :
        \/ \E d \in DrugInputs : Call(p, d)
        \/ LookupNDC(p)
        \/ LookupSimilar(p)
        \/ InsertOk(p)
        \/ \E msg \in StoreMessages : InsertFail(p, msg)

Spec == Init /\ [][Next]_vars

----------------------------------------------------------------------------
(* The store as the search operations see it *)

\* results.slice(0, 10) of searchDrugs
ResultCapDrugs == 10

\* results.slice(0, 15) of searchMedicationsByName
ResultCapMeds == 15

\* .limit(20) of searchDrugs' catalog query
CatalogLimitDrugs == 20

\* .limit(30) of searchMedicationsByName's catalog query
CatalogLimitMeds == 30

Reverse(s) == [i \in 1..Len(s) |-> s[Len(s) + 1 - i]]

Take(s, n) == SubSeq(s, 1, IF Len(s) < n THEN Len(s) ELSE n)

\* the store returns the rows of a query without ORDER BY in an order of its
\* own: table order or the reverse of it
Ordered(rows, order) == IF order = "desc" THEN Reverse(rows) ELSE rows

\* data = null: the query failed, or .single() did not get exactly one row
NullData == [isNull |-> TRUE]

\* the drug a unit references (drug:drugs (...))
DrugOf(u) == LET i == CHOOSE i \in DOMAIN catalog : catalog[i].drug_id = u.drug_id
             IN catalog[i]

\* from('units').select(unit_id, drug).eq('clinic_id', clinicId)
\*   .gt('available_quantity', 0)
InventoryQuery(clinicId, order) ==
    LET inStock == SelectSeq(units, LAMBDA u : /\ u.clinic_id = clinicId
                                               /\ u.available_quantity > 0)
    IN Ordered([i \in 1..Len(inStock) |->
                   [unit_id |-> inStock[i].unit_id, drug |-> DrugOf(inStock[i])]],
               order)

Wild(q) == <<"%">> \o q \o <<"%">>

\* from('drugs').select('*').or(ndc_id.ilike.%..%, medication_name.ilike.%..%,
\*   generic_name.ilike.%..%).limit(20)
CatalogQueryDrugs(normalizedQuery, normalizedNDC, order) ==
    LET ndcPattern == IF normalizedNDC # <<>> THEN normalizedNDC ELSE normalizedQuery
    IN Take(Ordered(SelectSeq(catalog, LAMBDA r :
                        \/ ILike(Wild(ndcPattern), r.ndc_id)
                        \/ ILike(Wild(normalizedQuery), r.medication_name)
                        \/ ILike(Wild(normalizedQuery), r.generic_name)),
                    order),
            CatalogLimitDrugs)

\* from('drugs').select('*').or(medication_name.ilike.%..%,
\*   generic_name.ilike.%..%).limit(30)
CatalogQueryMeds(normalizedQuery, order) ==
    Take(Ordered(SelectSeq(catalog, LAMBDA r :
                     \/ ILike(Wild(normalizedQuery), r.medication_name)
                     \/ ILike(Wild(normalizedQuery), r.generic_name)),
                 order),
         CatalogLimitMeds)

\* what a query hands back: null when it failed
Data(failed, rows) == IF failed THEN NullData ELSE [isNull |-> FALSE, rows |-> rows]

\* a DrugSearchResult
Entry(drug, inInventory) ==
    [drugId         |-> drug.drug_id,
     medicationName |-> drug.medication_name,
     genericName    |-> drug.generic_name,
     strength       |-> drug.strength,
     strengthUnit   |-> drug.strength_unit,
     ndcId          |-> drug.ndc_id,
     form           |-> drug.form,
     inInventory    |-> inInventory]

\* the accumulator of a search: results, the seen set, and whether a
\* TypeError ended the call
Fresh == [threw |-> FALSE, results |-> <<>>, seen |-> {}]

\* the length test on the query as given, not trimmed
RejectedUntrimmed(query) == ~Truthy(query) \/ Len(query) < 2

\* if (!query || query.trim().length < 2) return []
Rejected(query) == ~Truthy(query) \/ Len(trim(query)) < 2

----------------------------------------------------------------------------
(* searchDrugs *)

\* one turn of the inventory loop: normalizeNDC(drug.ndc_id) is evaluated
\* first and throws on a null ndc_id
InventoryStepDrugs(acc, unit, normalizedQuery, normalizedNDC) ==
    LET drug == unit.drug
    IN IF drug.ndc_id = Null THEN [acc EXCEPT !.threw = TRUE]
       ELSE LET ndcMatch == includes(normalizeNDC(drug.ndc_id), normalizedNDC)
                nameMatch ==
                    \/ includes(toLowerCase(drug.medication_name),
                                toLowerCase(normalizedQuery))
                    \/ includes(toLowerCase(drug.generic_name),
                                toLowerCase(normalizedQuery))
            IN IF (ndcMatch \/ nameMatch) /\ drug.ndc_id \notin acc.seen
               THEN [acc EXCEPT !.seen = @ \cup {drug.ndc_id},
                                !.results = Append(@, Entry(drug, TRUE))]
               ELSE acc

RECURSIVE InventoryLoopDrugs(_, _, _, _, _)
InventoryLoopDrugs(acc, rows, i, normalizedQuery, normalizedNDC) ==
    IF i > Len(rows) \/ acc.threw THEN acc
    ELSE InventoryLoopDrugs(
             InventoryStepDrugs(acc, rows[i], normalizedQuery, normalizedNDC),
             rows, i + 1, normalizedQuery, normalizedNDC)

\* the loop entered without the null test: iterating null throws
InventoryPhaseDrugsUnguarded(acc, inventoryDrugs, normalizedQuery, normalizedNDC) ==
    IF inventoryDrugs = NullData THEN [acc EXCEPT !.threw = TRUE]
    ELSE InventoryLoopDrugs(acc, inventoryDrugs.rows, 1, normalizedQuery,
                            normalizedNDC)

\* if (inventoryDrugs) { for (const unit of inventoryDrugs) ... }
InventoryPhaseDrugs(acc, inventoryDrugs, normalizedQuery, normalizedNDC) ==
    IF inventoryDrugs = NullData THEN acc
    ELSE InventoryLoopDrugs(acc, inventoryDrugs.rows, 1, normalizedQuery,
                            normalizedNDC)

\* the catalog loop without the seenNDCs test
CatalogStepDrugsUnseen(acc, drug) ==
    [acc EXCEPT !.seen = @ \cup {drug.ndc_id},
                !.results = Append(@, Entry(drug, FALSE))]

\* one turn of the catalog loop: a row not seen by ndc_id is appended
CatalogStepDrugs(acc, drug) ==
    IF drug.ndc_id \notin acc.seen
    THEN [acc EXCEPT !.seen = @ \cup {drug.ndc_id},
                     !.results = Append(@, Entry(drug, FALSE))]
    ELSE acc

RECURSIVE CatalogLoopDrugs(_, _, _)
CatalogLoopDrugs(acc, rows, i) ==
    IF i > Len(rows) THEN acc
    ELSE CatalogLoopDrugs(CatalogStepDrugs(acc, rows[i]), rows, i + 1)

\* if (allDrugs) { for (const drug of allDrugs) ... }
CatalogPhaseDrugs(acc, allDrugs) ==
    IF acc.threw \/ allDrugs = NullData THEN acc
    ELSE CatalogLoopDrugs(acc, allDrugs.rows, 1)

\* the body of searchDrugs after its two reads
SearchDrugsBody(query, inventoryDrugs, allDrugs) ==
    LET normalizedQuery == trim(query)
        normalizedNDC == normalizeNDC(normalizedQuery)
        acc == CatalogPhaseDrugs(
                   InventoryPhaseDrugs(Fresh, inventoryDrugs, normalizedQuery,
                                       normalizedNDC),
                   allDrugs)
    IN IF acc.threw THEN [outcome |-> "threw", result |-> <<>>]
       ELSE [outcome |-> "returned", result |-> Take(acc.results, ResultCapDrugs)]

----------------------------------------------------------------------------
(* searchMedicationsByName *)

\* String(n) of a non-negative integer
RECURSIVE String(_)
String(n) == IF n < 10 THEN <<DigitChars[n + 1]>>
             ELSE String(n \div 10) \o <<DigitChars[(n % 10) + 1]>>

\* `${drug.medication_name.toLowerCase()}-${drug.strength}-${drug.strength_unit}`
MedicationKey(drug) ==
    toLowerCase(drug.medication_name) \o <<"-">> \o String(drug.strength)
        \o <<"-">> \o drug.strength_unit

\* one turn of the inventory loop: a name match not seen by key is appended
InventoryStepMeds(acc, unit, normalizedQuery) ==
    LET drug == unit.drug
        nameMatch ==
            \/ includes(toLowerCase(drug.medication_name), normalizedQuery)
            \/ /\ Truthy(drug.generic_name)
               /\ includes(toLowerCase(drug.generic_name), normalizedQuery)
    IN IF nameMatch /\ MedicationKey(drug) \notin acc.seen
       THEN [acc EXCEPT !.seen = @ \cup {MedicationKey(drug)},
                        !.results = Append(@, Entry(drug, TRUE))]
       ELSE acc

RECURSIVE InventoryLoopMeds(_, _, _, _)
InventoryLoopMeds(acc, rows, i, normalizedQuery) ==
    IF i > Len(rows) THEN acc
    ELSE InventoryLoopMeds(InventoryStepMeds(acc, rows[i], normalizedQuery),
                           rows, i + 1, normalizedQuery)

\* if (inventoryDrugs) { for (const unit of inventoryDrugs) ... }
InventoryPhaseMeds(acc, inventoryDrugs, normalizedQuery) ==
    IF inventoryDrugs = NullData THEN acc
    ELSE InventoryLoopMeds(acc, inventoryDrugs.rows, 1, normalizedQuery)

\* one turn of the catalog loop: a row not seen by key is appended
CatalogStepMeds(acc, drug) ==
    IF MedicationKey(drug) \notin acc.seen
    THEN [acc EXCEPT !.seen = @ \cup {MedicationKey(drug)},
                     !.results = Append(@, Entry(drug, FALSE))]
    ELSE acc

RECURSIVE CatalogLoopMeds(_, _, _)
CatalogLoopMeds(acc, rows, i) ==
    IF i > Len(rows) THEN acc
    ELSE CatalogLoopMeds(CatalogStepMeds(acc, rows[i]), rows, i + 1)

\* if (allDrugs) { for (const drug of allDrugs) ... }
CatalogPhaseMeds(acc, allDrugs) ==
    IF allDrugs = NullData THEN acc ELSE CatalogLoopMeds(acc, allDrugs.rows, 1)

\* the collation weight of a character: punctuation, then digits, then
\* letters without regard to case
Primary(c) == IF IsLetter(c) THEN 100 + IndexIn(LowerLetters, ToLowerChar(c))
              ELSE IF IsDigit(c) THEN 50 + IndexIn(DigitChars, c)
              ELSE IndexIn(<<" ", "_", "-", ",", ".", "%">>, c)

RECURSIVE ComparePrimary(_, _)
ComparePrimary(a, b) ==
    IF a = <<>> THEN (IF b = <<>> THEN 0 ELSE -1)
    ELSE IF b = <<>> THEN 1
    ELSE IF Primary(Head(a)) < Primary(Head(b)) THEN -1
    ELSE IF Primary(Head(a)) > Primary(Head(b)) THEN 1
    ELSE ComparePrimary(Tail(a), Tail(b))

\* among strings equal but for case, the first difference decides: lower
\* case first
RECURSIVE CompareCase(_, _)
CompareCase(a, b) ==
    IF a = <<>> \/ b = <<>> THEN 0
    ELSE IF Head(a) = Head(b) THEN CompareCase(Tail(a), Tail(b))
    ELSE IF Head(a) = ToLowerChar(Head(a)) THEN -1 ELSE 1

\* String.prototype.localeCompare
localeCompare(a, b) ==
    IF ComparePrimary(a, b) # 0 THEN ComparePrimary(a, b) ELSE CompareCase(a, b)

\* the ordering function: inventory first, then by name; flipped
\* (inventory last, names descending)
CompareEntriesFlipped(a, b) ==
    IF a.inInventory /\ ~b.inInventory THEN 1
    ELSE IF ~a.inInventory /\ b.inInventory THEN -1
    ELSE localeCompare(b.medicationName, a.medicationName)

\* the ordering function given to results.sort: inventory first, then by name
CompareEntries(a, b) ==
    IF a.inInventory /\ ~b.inInventory THEN -1
    ELSE IF ~a.inInventory /\ b.inInventory THEN 1
    ELSE localeCompare(a.medicationName, b.medicationName)

\* x put behind every element that does not sort after it
InsertSorted(sorted, x) ==
    LET after == {k \in DOMAIN sorted : CompareEntries(sorted[k], x) > 0}
        at == IF after = {} THEN Len(sorted) + 1
              ELSE CHOOSE k \in after : \A j \in after : k <= j
    IN SubSeq(sorted, 1, at - 1) \o <<x>> \o SubSeq(sorted, at, Len(sorted))

\* Array.prototype.sort, which is stable
RECURSIVE SortFrom(_, _, _)
SortFrom(sorted, results, i) ==
    IF i > Len(results) THEN sorted
    ELSE SortFrom(InsertSorted(sorted, results[i]), results, i + 1)

Sort(results) == SortFrom(<<>>, results, 1)

\* the body of searchMedicationsByName after its two reads
SearchMedsBody(query, inventoryDrugs, allDrugs) ==
    LET normalizedQuery == toLowerCase(trim(query))
        acc == CatalogPhaseMeds(
                   InventoryPhaseMeds(Fresh, inventoryDrugs, normalizedQuery),
                   allDrugs)
    IN [outcome |-> "returned",
        result |-> Take(Sort(acc.results), ResultCapMeds)]

----------------------------------------------------------------------------
(* searchDrugByNDC *)

\* clinicId?: string; absent is falsy
NoClinic == ""

\* the rows .limit(1).single() may hand back: any one in-stock unit of the
\* clinic, the query naming no order; null when there is none
FirstUnitChoices(clinicId) ==
    LET rows == InventoryQuery(clinicId, "asc")
    IN IF rows = <<>> THEN {NullData} ELSE Range(rows)

\* from('drugs').select('*').eq('ndc_id', ndc).single()
CatalogByNDC(ndc) == single(SelectByNDC(catalog, ndc))

\* the inventory branch: the entry to return, none to fall through, or a
\* TypeError from normalizeNDC(null)
InventoryBranch(ndc, clinicId, inventoryUnit) ==
    IF clinicId = NoClinic \/ inventoryUnit = NullData
    THEN [outcome |-> "fallthrough", result |-> <<>>]
    ELSE IF inventoryUnit.drug.ndc_id = Null
    THEN [outcome |-> "threw", result |-> <<>>]
    ELSE IF normalizeNDC(inventoryUnit.drug.ndc_id) = normalizeNDC(ndc)
    THEN [outcome |-> "returned", result |-> <<Entry(inventoryUnit.drug, TRUE)>>]
    ELSE [outcome |-> "fallthrough", result |-> <<>>]

\* the catalog branch: the row of exactly that ndc_id, or null
CatalogBranch(drug) ==
    IF drug # NoRow
    THEN [outcome |-> "returned", result |-> <<Entry(drug, FALSE)>>]
    ELSE [outcome |-> "returned", result |-> <<>>]

\* the body of searchDrugByNDC; its result is a sequence of at most one
\* entry, empty for null
SearchByNDCBody(ndc, clinicId, inventoryUnit, drug) ==
    LET inv == InventoryBranch(ndc, clinicId, inventoryUnit)
    IN IF inv.outcome = "fallthrough" THEN CatalogBranch(drug) ELSE inv

Min(a, b) == IF a < b THEN a ELSE b

----------------------------------------------------------------------------
(* The stores the search operations are run on *)

\* rows of free choice at the head of the catalog
MaxHead == 2

\* the bulk of the catalog exceeds each cap and each limit by this much
Extra == 1

\* bulk drugs in stock when only some of them are
StockedBulk == 3

BulkLetters == <<"c", "A", "b", "a", "B", "C">>

Pad2(n) == IF n < 10 THEN <<"0">> \o String(n) ELSE String(n)

\* the j-th bulk drug: names "me?" in no alphabetical order, its own strength
\* and its own NDC
BulkInput(j) ==
    DrugInput(<<"m", "e", BulkLetters[(j % Len(BulkLetters)) + 1]>>, Null, j,
              <<"9", "-">> \o Pad2(j), "tablet")

BulkSizes == {0} \cup {c + Extra : c \in {ResultCapDrugs, ResultCapMeds,
                                          CatalogLimitDrugs, CatalogLimitMeds}}

\* a catalog as getOrCreateDrug's inserts leave it: head rows, then n bulk rows
CatalogOf(head, n) ==
    [i \in 1..(Len(head) + n) |->
        IF i <= Len(head) THEN NewDrugRow(head[i], i)
        ELSE NewDrugRow(BulkInput(i - Len(head)), i)]

SetToSeq(S) ==
    LET RECURSIVE Build(_)
        Build(T) == IF T = {} THEN <<>>
                    ELSE LET x == CHOOSE x \in T : \A y \in T : x <= y
                         IN <<x>> \o Build(T \ {x})
    IN Build(S)

\* the units table over a catalog of `size` rows: a unit of the first drug at
\* another clinic and an empty one at clinic c1, then one stocked unit at c1
\* for each drug of `stocked`
UnitsOf(size, stocked) ==
    LET decoys == IF size = 0 THEN <<>>
                  ELSE << [clinic_id |-> "c2", drug_id |-> 1, available_quantity |-> 1],
                          [clinic_id |-> "c1", drug_id |-> 1, available_quantity |-> 0] >>
        ids == SetToSeq(stocked)
        rows == decoys \o [i \in 1..Len(ids) |->
                    [clinic_id |-> "c1", drug_id |-> ids[i], available_quantity |-> 2]]
    IN [i \in 1..Len(rows) |->
           [unit_id |-> i, clinic_id |-> rows[i].clinic_id,
            drug_id |-> rows[i].drug_id,
            available_quantity |-> rows[i].available_quantity]]

NoCall == [op |-> "none"]

NoQR == [out |-> Null]

IdleUpsert ==
    /\ pc = [p \in Procs |-> "idle"]
    /\ drugData = [p \in Procs |-> NoData]
    /\ ret = [p \in Procs |-> 0]
    /\ err = [p \in Procs |-> Null]
    /\ storeErr = [p \in Procs |-> Null]
    /\ hist = [p \in Procs |-> NoHist]
    /\ quiet = [p \in Procs |-> TRUE]
    /\ ncalls = 0

InitSearch ==
    /\ IdleUpsert
    /\ \E k \in 0..MaxHead, n \in BulkSizes :
         \E head \in [1..k -> DrugInputs], stockedHead \in SUBSET (1..k),
            m \in {0, Min(StockedBulk, n), n} :
              /\ n > 0 => k = 0
              /\ catalog = CatalogOf(head, n)
              /\ units = UnitsOf(k + n, stockedHead \cup ((k + 1)..(k + m)))
    /\ call = NoCall
    /\ qr = NoQR

----------------------------------------------------------------------------
(* The search operations as actions: one call at a time *)

Queries == { <<>>, <<" ", "a", " ">>, <<"a", "b">>, <<"1", "2">>, <<" ", "M", "e">> }

NDCs == { <<"1", "-", "2">>, <<"1", "2">>, <<"9", "-", "0", "1">> }

Clinics == {"c1", "c2"}

Orders == {"asc", "desc"}

\* the record of a call that asked the store nothing
Unasked(op, query, clinicId) ==
    [op |-> op, query |-> query, clinicId |-> clinicId,
     invAsked |-> 0, invFailed |-> FALSE, invOrder |-> "asc",
     catAsked |-> 0, catFailed |-> FALSE, catOrder |-> "asc",
     outcome |-> "returned", result |-> <<>>]

SearchDrugs(query, clinicId, invFailed, invOrder, catFailed, catOrder) ==
    /\ call = NoCall
    /\ LET normalizedQuery == trim(query)
           normalizedNDC == normalizeNDC(normalizedQuery)
           inventoryDrugs == Data(invFailed, InventoryQuery(clinicId, invOrder))
           allDrugs == Data(catFailed,
                            CatalogQueryDrugs(normalizedQuery, normalizedNDC, catOrder))
           body == SearchDrugsBody(query, inventoryDrugs, allDrugs)
       IN call' =
            IF Rejected(query) THEN Unasked("searchDrugs", query, clinicId)
            ELSE IF body.outcome = "threw"
            THEN [Unasked("searchDrugs", query, clinicId) EXCEPT
                    !.invAsked = 1, !.invFailed = invFailed, !.invOrder = invOrder,
                    !.outcome = "threw"]
            ELSE [Unasked("searchDrugs", query, clinicId) EXCEPT
                    !.invAsked = 1, !.invFailed = invFailed, !.invOrder = invOrder,
                    !.catAsked = 1, !.catFailed = catFailed, !.catOrder = catOrder,
                    !.result = body.result]
    /\ UNCHANGED <<catalog, units, upsertVars, qr>>

SearchMedicationsByName(query, clinicId, invFailed, invOrder, catFailed, catOrder) ==
    /\ call = NoCall
    /\ LET normalizedQuery == toLowerCase(trim(query))
           inventoryDrugs == Data(invFailed, InventoryQuery(clinicId, invOrder))
           allDrugs == Data(catFailed, CatalogQueryMeds(normalizedQuery, catOrder))
           body == SearchMedsBody(query, inventoryDrugs, allDrugs)
       IN call' =
            IF Rejected(query) THEN Unasked("searchMedicationsByName", query, clinicId)
            ELSE [Unasked("searchMedicationsByName", query, clinicId) EXCEPT
                    !.invAsked = 1, !.invFailed = invFailed, !.invOrder = invOrder,
                    !.catAsked = 1, !.catFailed = catFailed, !.catOrder = catOrder,
                    !.result = body.result]
    /\ UNCHANGED <<catalog, units, upsertVars, qr>>

\* the unit the inventory read handed back is kept in the record as `unit`
SearchDrugByNDC(ndc, clinicId, invFailed, inventoryUnit, catFailed) ==
    /\ call = NoCall
    /\ LET unit == IF clinicId = NoClinic \/ invFailed THEN NullData
                   ELSE inventoryUnit
           inv == InventoryBranch(ndc, clinicId, unit)
           drug == IF catFailed THEN NoRow ELSE CatalogByNDC(ndc)
           body == SearchByNDCBody(ndc, clinicId, unit, drug)
       IN call' =
            [op |-> "searchDrugByNDC", query |-> ndc, clinicId |-> clinicId,
             invAsked |-> IF clinicId = NoClinic THEN 0 ELSE 1,
             invFailed |-> clinicId # NoClinic /\ invFailed,
             unit |-> IF unit = NullData THEN 0 ELSE unit.unit_id,
             catAsked |-> IF inv.outcome = "fallthrough" THEN 1 ELSE 0,
             catFailed |-> inv.outcome = "fallthrough" /\ catFailed,
             outcome |-> body.outcome, result |-> body.result]
    /\ UNCHANGED <<catalog, units, upsertVars, qr>>

\* the caller has taken the outcome
Done ==
    /\ call # NoCall
    /\ call' = NoCall
    /\ UNCHANGED <<catalog, units, upsertVars, qr>>

NextSearch ==
    \/ \E query \in Queries, clinicId \in Clinics, invFailed \in BOOLEAN,
          invOrder \in Orders, catFailed \in BOOLEAN, catOrder \in Orders :
            \/ SearchDrugs(query, clinicId, invFailed, invOrder, catFailed, catOrder)
            \/ SearchMedicationsByName(query, clinicId, invFailed, invOrder,
                                       catFailed, catOrder)
    \/ \E ndc \in NDCs, clinicId \in Clinics \cup {NoClinic}, invFailed \in BOOLEAN,
          catFailed \in BOOLEAN :
            \E inventoryUnit \in FirstUnitChoices(clinicId) :
                SearchDrugByNDC(ndc, clinicId, invFailed, inventoryUnit, catFailed)
    \/ Done

SpecSearch == InitSearch /\ [][NextSearch]_vars

----------------------------------------------------------------------------
(* generateQRCode *)

\* String.prototype.padStart(width, fill)
RECURSIVE padStart(_, _, _)
padStart(s, width, fill) ==
    IF Len(s) >= width THEN s ELSE padStart(<<fill>> \o s, width, fill)

\* String.prototype.padEnd(width, fill)
RECURSIVE padEnd(_, _, _)
padEnd(s, width, fill) ==
    IF Len(s) >= width THEN s ELSE padEnd(s \o <<fill>>, width, fill)

\* String.prototype.substring(0, n)
substring0(s, n) == SubSeq(s, 1, Min(Len(s), n))

\* String.prototype.slice(-n)
sliceLast(s, n) == SubSeq(s, IF Len(s) > n THEN Len(s) - n + 1 ELSE 1, Len(s))

\* String.prototype.split('.')[0]
RECURSIVE beforeDot(_)
beforeDot(s) == IF s = <<>> \/ Head(s) = "." THEN <<>>
                ELSE <<Head(s)>> \o beforeDot(Tail(s))

IsAlnum(c) == IsLetter(c) \/ IsDigit(c)

IsDigitOrDot(c) == IsDigit(c) \/ c = "."

\* MMDDYY from the date's local month (0..11), day and full year
DateStr(date) ==
    padStart(String(date.month + 1), 2, "0")
        \o padStart(String(date.day), 2, "0")
        \o sliceLast(String(date.year), 2)

\* the first 4 letters or digits, upper-cased, padded with X
MedCode(medicationName) ==
    padEnd(toUpperCase(substring0(SelectSeq(medicationName, IsAlnum), 4)), 4, "X")

\* the dose code with the final substring(0, 2) left out
DoseNumUncut(dosage) ==
    padStart(beforeDot(SelectSeq(dosage, IsDigitOrDot)), 2, "0")

\* the integer part of the dosage, padded to 2 digits and cut to 2
DoseNum(dosage) ==
    substring0(padStart(beforeDot(SelectSeq(dosage, IsDigitOrDot)), 2, "0"), 2)

\* sequence?: number is <<>> when absent and <<n>> when given
generateQRCode(lotCode, date, medicationName, dosage, sequence) ==
    LET baseCode == toUpperCase(lotCode) \o <<"-">> \o DateStr(date) \o <<"-">>
                        \o MedCode(medicationName) \o <<"-">> \o DoseNum(dosage)
    IN IF sequence # <<>> /\ sequence[1] > 0
       THEN baseCode \o <<"-">> \o padStart(String(sequence[1]), 2, "0")
       ELSE baseCode

\* the largest sequence number tried
MaxSequence == 100

LotCodes == { <<"b", "l">>, <<"A">>, <<"C", "-", "r">> }

\* dates of four-digit years
Dates == [month : {0, 9, 11}, day : {5, 31}, year : {1999, 2005, 2026}]

MedicationNames == { <<"A","m","l","o","d","i">>, <<"A","S","A">>,
                     <<"b","-","1"," ","c","d","e">>, <<>> }

Dosages == { <<"5","m","g">>, <<"5","0","0","m","g">>, <<"2",".","5"," ","m","g">>,
             <<".","5">>, <<"m","g">>, <<"1","2",".","5">> }

Sequences == { <<>>, <<0>>, <<2>>, <<MaxSequence - 1>>, <<MaxSequence>> }

InitQR ==
    /\ IdleUpsert
    /\ catalog = <<>>
    /\ units = <<>>
    /\ call = NoCall
    /\ \E lotCode \in LotCodes, date \in Dates, medicationName \in MedicationNames,
          dosage \in Dosages, sequence \in Sequences :
            qr = [lotCode |-> lotCode, date |-> date,
                  medicationName |-> medicationName, dosage |-> dosage,
                  sequence |-> sequence, out |-> Null]

GenerateQRCode ==
    /\ qr.out = Null
    /\ qr' = [qr EXCEPT !.out = generateQRCode(qr.lotCode, qr.date,
                                               qr.medicationName, qr.dosage,
                                               qr.sequence)]
    /\ UNCHANGED <<catalog, units, upsertVars, call>>

NextQR == GenerateQRCode

SpecQR == InitQR /\ [][NextQR]_vars

----------------------------------------------------------------------------
(* Claims about getOrCreateDrug, under Spec *)

\* p's call returns in this step
Returns(p) == pc[p] # "returned" /\ pc'[p] = "returned"

SameAttributes(r1, r2) ==
    /\ r1.medication_name = r2.medication_name
    /\ r1.strength = r2.strength
    /\ r1.strength_unit = r2.strength_unit
    /\ r1.form = r2.form

\* C1: when a call returns and the same caller's previous call had the same
\* attributes and returned, and no other caller has inserted since that
\* previous call began, the identifier is the previous one and the catalog
\* gets no row.
C1_SequentialIdempotence ==
    [][\A p \in Procs :
          (Returns(p) /\ hist[p].data = drugData[p] /\ hist[p].alone)
              => (ret'[p] = hist[p].id /\ catalog' = catalog)]_vars

\* C2: the insert is not conditional on the existence checks still holding:
\* a call that has passed both checks and whose insert succeeds adds a row
\* and returns that row's identifier, whatever the catalog holds by then.
C2_InsertIsUnconditional ==
    [][\A p \in Procs :
          (pc[p] = "insert" /\ pc'[p] = "returned")
              => /\ Len(catalog') = Len(catalog) + 1
                 /\ ret'[p] = catalog'[Len(catalog')].drug_id
                 /\ \A q \in Procs \ {p} : ret'[q] # ret'[p]]_vars

\* C2's case: only two calls were ever made, with the same attributes, from
\* the empty catalog; both returned, with different identifiers, and the
\* catalog holds two rows with the same name, strength, unit and form.
C2_DuplicateRows ==
    /\ ncalls = 2
    /\ \A p \in Procs : pc[p] = "returned"
    /\ drugData[1] = drugData[2]
    /\ ret[1] # ret[2]
    /\ Len(catalog) = 2
    /\ SameAttributes(catalog[1], catalog[2])
    /\ {catalog[1].drug_id, catalog[2].drug_id} = {ret[1], ret[2]}

\* C8: a call whose insert fails throws an Error whose message carries the
\* store's message, returns no identifier and leaves the catalog as it was;
\* a call that returns, returns the identifier of a row the catalog holds at
\* that moment.
C8_WriteFailureVisible ==
    [][\A p \in Procs :
          /\ (storeErr[p] = Null /\ storeErr'[p] # Null)
                 => /\ pc[p] = "insert" /\ pc'[p] = "threw"
                    /\ err'[p] = ErrorPrefix \o storeErr'[p]
                    /\ ret'[p] = 0
                    /\ catalog' = catalog
          /\ Returns(p)
                 => /\ err'[p] = Null
                    /\ \E i \in DOMAIN catalog' : catalog'[i].drug_id = ret'[p]]_vars

\* C8's case: one call threw with the store's message while the catalog
\* holds a row another call inserted
C8_InsertFailed ==
    \E p \in Procs :
        /\ pc[p] = "threw"
        /\ err[p] = ErrorPrefix \o <<"d","u","p">>
        /\ ret[p] = 0
        /\ Len(catalog) = 1

----------------------------------------------------------------------------
(* Claims about the search operations, under SpecSearch *)

IsListSearch == call.op \in {"searchDrugs", "searchMedicationsByName"}

\* what the store handed the call, from the call's record
InventoryData ==
    Data(call.invFailed, InventoryQuery(call.clinicId, call.invOrder))

CatalogData ==
    Data(call.catFailed,
         IF call.op = "searchDrugs"
         THEN CatalogQueryDrugs(trim(call.query), normalizeNDC(trim(call.query)),
                                call.catOrder)
         ELSE CatalogQueryMeds(toLowerCase(trim(call.query)), call.catOrder))

EmptyData == Data(FALSE, <<>>)

BodyOf(inventoryDrugs, allDrugs) ==
    IF call.op = "searchDrugs"
    THEN SearchDrugsBody(call.query, inventoryDrugs, allDrugs)
    ELSE SearchMedsBody(call.query, inventoryDrugs, allDrugs)

\* the in-stock units of the clinic, each with its drug
Stock(clinicId) == InventoryQuery(clinicId, "asc")

\* C3: a searchDrugByNDC call with a clinic whose inventory read succeeded,
\* where some in-stock unit's drug has the input's normalized NDC (and no
\* in-stock drug lacks an NDC), returns a drug of that normalized NDC with
\* inInventory = true.
C3_InventoryPrioritised ==
    ( /\ call.op = "searchDrugByNDC"
      /\ call.clinicId # NoClinic
      /\ ~call.invFailed
      /\ LET stock == Stock(call.clinicId)
         IN /\ \A i \in DOMAIN stock : stock[i].drug.ndc_id # Null
            /\ \E i \in DOMAIN stock :
                  normalizeNDC(stock[i].drug.ndc_id) = normalizeNDC(call.query) )
    => /\ call.outcome = "returned"
       /\ Len(call.result) = 1
       /\ call.result[1].inInventory
       /\ normalizeNDC(call.result[1].ndcId) = normalizeNDC(call.query)

\* C4: no two entries searchDrugs returns have the same NDC value, and no two
\* entries searchMedicationsByName returns have the same medication name
\* (letter case aside), strength and strength unit.
C4_Deduplicated ==
    /\ (call.op = "searchDrugs" /\ call.outcome = "returned")
          => \A i, j \in DOMAIN call.result :
                i < j => call.result[i].ndcId # call.result[j].ndcId
    /\ call.op = "searchMedicationsByName"
          => \A i, j \in DOMAIN call.result :
                i < j => ~ /\ toLowerCase(call.result[i].medicationName)
                                 = toLowerCase(call.result[j].medicationName)
                           /\ call.result[i].strength = call.result[j].strength
                           /\ call.result[i].strengthUnit = call.result[j].strengthUnit

\* C4's case: two catalog drugs of one NDC, both in stock and both matching
\* the query, come back as one entry
C4_DuplicateDropped ==
    /\ call.op = "searchDrugs"
    /\ call.outcome = "returned"
    /\ call.query = <<"1", "2">>
    /\ Len(catalog) = 2
    /\ catalog[1].ndc_id = catalog[2].ndc_id
    /\ Len(Stock(call.clinicId)) = 2
    /\ ~call.invFailed
    /\ Len(call.result) = 1

\* where a sequence of rows puts each drug first
PlaceIn(ids) ==
    [d \in Range(ids) |-> CHOOSE i \in DOMAIN ids :
                              ids[i] = d /\ \A k \in 1..(i - 1) : ids[k] # d]

\* C5: in a returned sequence no inventory entry follows a catalog entry; in
\* searchDrugs the entries of each group stand in the order of the store's
\* rows; in searchMedicationsByName the entries of each group are in
\* alphabetical order of medication name.
C5_Ordered ==
    (IsListSearch /\ call.outcome = "returned") =>
        LET res == call.result
            invRows == InventoryQuery(call.clinicId, call.invOrder)
            catRows == Ordered(catalog, call.catOrder)
            invPlace == PlaceIn([i \in DOMAIN invRows |-> invRows[i].drug.drug_id])
            catPlace == PlaceIn([i \in DOMAIN catRows |-> catRows[i].drug_id])
        IN \A i, j \in DOMAIN res : i < j =>
            /\ res[j].inInventory => res[i].inInventory
            /\ (call.op = "searchDrugs" /\ res[i].inInventory /\ res[j].inInventory)
                  => invPlace[res[i].drugId] < invPlace[res[j].drugId]
            /\ (call.op = "searchDrugs" /\ ~res[i].inInventory /\ ~res[j].inInventory)
                  => catPlace[res[i].drugId] < catPlace[res[j].drugId]
            /\ (call.op = "searchMedicationsByName"
                    /\ res[i].inInventory = res[j].inInventory)
                  => localeCompare(res[i].medicationName, res[j].medicationName) <= 0

\* C5's case: searchMedicationsByName cut its merged list to 15 entries, of
\* both groups, with names that the store's rows do not give in order
C5_TruncatedMixed ==
    /\ call.op = "searchMedicationsByName"
    /\ Len(call.result) = ResultCapMeds
    /\ Len(catalog) > ResultCapMeds
    /\ call.result[1].inInventory
    /\ ~call.result[ResultCapMeds].inInventory
    /\ call.result[1].medicationName # call.result[2].medicationName
    /\ call.result[1].drugId > call.result[2].drugId

\* C6: a searchDrugs or searchMedicationsByName call whose inventory read
\* failed returns what the same call returns on no inventory rows; one whose
\* catalog read failed ends as the same call ends on no catalog rows; each
\* read is made at most once.
C6_ReadFailuresAbsorbed ==
    (IsListSearch /\ call.invAsked > 0) =>
        /\ call.invFailed
              => LET onNoInventory == BodyOf(EmptyData, CatalogData)
                 IN /\ call.outcome = "returned"
                    /\ call.result = onNoInventory.result
        /\ call.catFailed
              => LET onNoCatalog == BodyOf(InventoryData, EmptyData)
                 IN /\ call.outcome = onNoCatalog.outcome
                    /\ call.result = onNoCatalog.result
        /\ call.invAsked = 1
        /\ call.catAsked <= 1

\* C6's case: the inventory read failed at a clinic with stock, and the call
\* returned catalog entries only
C6_InventoryFailed ==
    /\ call.op = "searchDrugs"
    /\ call.invFailed
    /\ ~call.catFailed
    /\ Stock(call.clinicId) # <<>>
    /\ call.result # <<>>
    /\ \A i \in DOMAIN call.result : ~call.result[i].inInventory

\* C7: every search call ends by returning.
C7_SearchNeverRaises ==
    call.op \in {"searchDrugs", "searchDrugByNDC", "searchMedicationsByName"}
        => call.outcome = "returned"

\* C9: a searchDrugs or searchMedicationsByName call whose trimmed query has
\* fewer than 2 characters returns the empty sequence and makes neither read.
C9_ShortQueryRejected ==
    (IsListSearch /\ Len(trim(call.query)) < 2)
        => /\ call.outcome = "returned"
           /\ call.result = <<>>
           /\ call.invAsked = 0
           /\ call.catAsked = 0

\* C9's case: a three-character query that trims to one character, which a
\* catalog name contains, was rejected
C9_PaddedQueryRejected ==
    /\ call.op = "searchDrugs"
    /\ call.query = <<" ", "a", " ">>
    /\ \E i \in DOMAIN catalog : includes(toLowerCase(catalog[i].medication_name), <<"a">>)
    /\ call.result = <<>>
    /\ call.invAsked = 0

\* C11: in a searchDrugs call that returned, for a query with no decimal
\* digit, every entry with inInventory = true has a medication name or a
\* generic name that contains the trimmed query, letter case aside.
C11_InventoryMatchesQuery ==
    ( /\ call.op = "searchDrugs"
      /\ call.outcome = "returned"
      /\ normalizeNDC(trim(call.query)) = <<>> )
    => LET q == toLowerCase(trim(call.query))
       IN \A i \in DOMAIN call.result :
             call.result[i].inInventory
                 => \/ includes(toLowerCase(call.result[i].medicationName), q)
                    \/ includes(toLowerCase(call.result[i].genericName), q)

----------------------------------------------------------------------------
(* Claims about generateQRCode, under SpecQR *)

AllDigits(s) == \A i \in DOMAIN s : IsDigit(s[i])

\* the output after the lot code: -MMDDYY-MMMM-DD and what follows
AfterLot == SubSeq(qr.out, Len(qr.lotCode) + 1, Len(qr.out))

SequenceGiven == qr.sequence # <<>> /\ qr.sequence[1] > 0

\* the lot code upper-cased, then "-", a date field of `dateLen` digits, "-",
\* 4 medication characters, "-", 2 dose digits
FixedPart(dateLen) ==
    /\ Len(AfterLot) >= dateLen + 9
    /\ SubSeq(qr.out, 1, Len(qr.lotCode)) = toUpperCase(qr.lotCode)
    /\ AfterLot[1] = "-"
    /\ AllDigits(SubSeq(AfterLot, 2, dateLen + 1))
    /\ AfterLot[dateLen + 2] = "-"
    /\ \A i \in (dateLen + 3)..(dateLen + 6) :
          IsAlnum(AfterLot[i]) /\ AfterLot[i] = ToUpperChar(AfterLot[i])
    /\ AfterLot[dateLen + 7] = "-"
    /\ AllDigits(SubSeq(AfterLot, dateLen + 8, dateLen + 9))

\* what follows the dose code
SequencePart(dateLen) == SubSeq(AfterLot, dateLen + 10, Len(AfterLot))

\* C10, as claimed: a 6-digit date, a 4-character medication code and a
\* 2-digit dose code, followed by "-" and exactly 2 digits if and only if a
\* positive sequence is given.
C10_FixedWidth ==
    qr.out # Null =>
        /\ FixedPart(6)
        /\ IF SequenceGiven
           THEN /\ Len(SequencePart(6)) = 3
                /\ SequencePart(6)[1] = "-"
                /\ AllDigits(Tail(SequencePart(6)))
           ELSE SequencePart(6) = <<>>

\* C10, amended: as claimed, but the sequence field is the sequence number
\* in decimal padded with zeros to at least 2 digits: exactly 2 up to 99,
\* more from 100 on.
C10_PaddedWidth ==
    qr.out # Null =>
        /\ FixedPart(6)
        /\ IF SequenceGiven
           THEN /\ SequencePart(6)[1] = "-"
                /\ AllDigits(Tail(SequencePart(6)))
                /\ Len(SequencePart(6)) >= 3
                /\ Len(SequencePart(6)) = 3 <=> qr.sequence[1] <= 99
           ELSE SequencePart(6) = <<>>

\* C10's case: a dosage of three digits and a sequence of three digits
C10_LongDoseLongSequence ==
    /\ qr.out # Null
    /\ qr.dosage = <<"5","0","0","m","g">>
    /\ qr.sequence = <<MaxSequence>>
    /\ qr.date.year = 2026
    /\ Len(qr.out) = Len(qr.lotCode) + 15 + 1 + Len(String(MaxSequence))

====
